---------------------------- MODULE Spec2Model ----------------------------
(***************************************************************************)
(* A model of the rdma-rs verbs wrappers (src/src/ibv.rs, src/src/lib.rs): *)
(* the wrapper objects IbvContext, IbvPd, IbvCompChannel, IbvCq, IbvMr and *)
(* IbvQp, their constructors, derived Clone and Drop, the queue-pair       *)
(* transitions modify_reset2init / modify_init2rtr / modify_rtr2rts and    *)
(* IbvCq::poll, run against a model of the verbs driver they call.         *)
(*                                                                         *)
(* The wrappers hold only a raw handle.  The driver side (which handles    *)
(* exist, which are released, the state of a queue pair, the completions   *)
(* pending in a queue) is the environment: its return values are chosen    *)
(* nondeterministically among those the verbs interface allows.            *)
(***************************************************************************)
EXTENDS Integers, Sequences, FiniteSets

VARIABLES
    debug_assertions,  \* build profile: debug_assert_ne! is compiled in
    proc,              \* "running", "panicked" (a Rust panic), "crashed" (a fault inside the driver)
    nops,              \* steps taken so far
    hw,                \* driver side: handle id -> [kind, live, deps, state, wcs]
    refs,              \* wrapper side: handle id -> number of wrapper objects holding it
    last,              \* the most recent wrapper call and what it returned
    new_call,          \* locals of the most recent call, when it was IbvContext::new
    calls,             \* the modify_* calls made so far, in order
    produced,          \* number of completions the hardware has generated
    delivered,         \* completions handed to callers by poll, in order
    poll_call          \* locals of the most recent call, when it was IbvCq::poll

vars == <<debug_assertions, proc, nops, hw, refs, last, new_call, calls,
          produced, delivered, poll_call>>

(***************************************************************************)
(* Bounds of the model.                                                    *)
(***************************************************************************)
MaxOps == 5       \* steps in one run
MaxDevs == 2      \* adapters the enumeration can find
MaxPending == 3   \* completions pending in a queue
MaxBufLo == 3     \* low limb of a poll buffer's length
MaxBufHi == 2     \* high limb of a poll buffer's length (units of 2^31)

Min(a, b) == IF a <= b THEN a ELSE b
Max(a, b) == IF a >= b THEN a ELSE b

Handles == 1..Len(hw)

NoLast == [op |-> "none", kind |-> "none", h |-> 0, ret |-> 0, res |-> "none",
           pre |-> "none"]

NoNewCall == [num_devs |-> 0, dev_name |-> 0, ib_dev |-> 0, list |-> "none",
              frees |-> 0, open |-> "none"]

NoPollCall == [len |-> [hi |-> 0, lo |-> 0], ne |-> 0, n |-> 0, pre |-> 0,
               res |-> "none", count |-> 0]

\* One more step of the run.
Step == nops < MaxOps /\ nops' = nops + 1

(***************************************************************************)
(* The verbs driver.                                                       *)
(***************************************************************************)

\* Failure codes of the release calls: -1 with errno set, or the errno value
\* itself (EBUSY).
ReleaseFailRets == {-1, 16}

\* A handle some live object was created from.
Busy(h) == \E j \in Handles : hw[j].live /\ h \in hw[j].deps

\* How a release call finds handle h: already released (a stale pointer),
\* still referenced by live objects, or free to go.
ReleasePre(h) ==
    IF ~hw[h].live THEN "stale" ELSE IF Busy(h) THEN "busy" ELSE "idle"

\* A driver that releases whatever it is asked to, referenced or not.
DriverReleaseRetsUnchecked(h) == {0} \cup ReleaseFailRets

\* What ibv_close_device / ibv_dealloc_pd / ibv_destroy_comp_channel /
\* ibv_destroy_cq / ibv_dereg_mr / ibv_destroy_qp can return for handle h.
\* A domain, queue or channel that live objects still reference is refused;
\* closing a device is not.  Any release may fail for a reason of the
\* driver's own.
DriverReleaseRets(h) ==
    IF hw[h].live /\ hw[h].kind \in {"pd", "cq", "ch"} /\ Busy(h)
    THEN ReleaseFailRets
    ELSE {0} \cup ReleaseFailRets

\* A successful release ends the handle's life; nothing is released twice.
DriverRelease(h, ret) ==
    IF ret = 0 /\ hw[h].live
    THEN [hw EXCEPT ![h].live = FALSE]
    ELSE hw

\* A fresh handle; a queue pair starts in RESET, a queue starts empty.
NewHandle(kind, deps) ==
    [kind |-> kind, live |-> TRUE, deps |-> deps,
     state |-> IF kind = "qp" THEN "RESET" ELSE "NA", wcs |-> <<>>]

\* What a create call can return: a handle or NULL; handed a handle that was
\* already released (a stale pointer), anything, a fault included.
CreateOutcomes(deps) ==
    IF \A d \in deps : hw[d].live
    THEN {"handle", "null"}
    ELSE {"handle", "null", "fault"}

(***************************************************************************)
(* IbvContext::new                                                         *)
(***************************************************************************)

\* The enumerated list holds devices 1..num_devs; device i is named i.  The
\* loop returns the first device whose name compares equal, or null (0).
FindDevice(num_devs, dev_name) ==
    IF \E i \in 1..num_devs : i = dev_name
    THEN CHOOSE i \in 1..num_devs :
             i = dev_name /\ \A j \in 1..(i - 1) : j # dev_name
    ELSE 0

\* let ib_dev = match dev_name { None => *dev_list_ptr, Some(..) => .. };
\* dev_name = 0 is None.
SelectDevice(num_devs, dev_name) ==
    IF dev_name = 0 THEN 1 ELSE FindDevice(num_devs, dev_name)

\* debug_assert_ne!(num_devs, 0, ..)
DebugAssertFails(num_devs) == debug_assertions /\ num_devs = 0

\* ibv_open_device(ib_dev): a context, NULL, or - handed a null device, which
\* the driver dereferences - a fault.
OpenOutcomes(ib_dev) ==
    IF ib_dev = 0 THEN {"null", "fault"} ELSE {"context", "null"}

IbvContextNew(num_devs, dev_name, open) ==
    /\ proc = "running"
    /\ Step
    /\ LET ib_dev == SelectDevice(num_devs, dev_name)
           call(dev, list, frees, opened) ==
               [num_devs |-> num_devs, dev_name |-> dev_name, ib_dev |-> dev,
                list |-> list, frees |-> frees, open |-> opened]
           ret(res, h) ==
               [NoLast EXCEPT !.op = "new", !.kind = "ctx", !.h = h, !.res = res]
       IN
       IF DebugAssertFails(num_devs) THEN
           /\ proc' = "panicked"
           /\ last' = ret("panic", 0)
           /\ new_call' = call(0, "held", 0, "none")
           /\ UNCHANGED <<hw, refs>>
       ELSE IF num_devs = 0 THEN
           /\ last' = ret("NoDevice", 0)
           /\ new_call' = call(0, "held", 0, "none")
           /\ UNCHANGED <<proc, hw, refs>>
       ELSE
           /\ open \in OpenOutcomes(ib_dev)
           /\ CASE open = "fault" ->
                   /\ proc' = "crashed"
                   /\ last' = ret("fault", 0)
                   /\ new_call' = call(ib_dev, "held", 0, open)
                   /\ UNCHANGED <<hw, refs>>
                [] open = "null" ->
                   /\ last' = ret("OpenDeviceError", 0)
                   /\ new_call' = call(ib_dev, "freed", 1, open)
                   /\ UNCHANGED <<proc, hw, refs>>
                [] open = "context" ->
                   /\ hw' = Append(hw, NewHandle("ctx", {}))
                   /\ refs' = Append(refs, 1)
                   /\ last' = ret("Ok", Len(hw) + 1)
                   /\ new_call' = call(ib_dev, "freed", 1, open)
                   /\ UNCHANGED proc
    /\ poll_call' = NoPollCall
    /\ UNCHANGED <<debug_assertions, calls, produced, delivered>>

(***************************************************************************)
(* IbvPd::new, IbvCompChannel::new, IbvCq::new, IbvMr::new, IbvQp::new     *)
(***************************************************************************)

\* Wrapper objects of a kind that a caller can pass by reference.
Held(kind) == {h \in Handles : hw[h].kind = kind /\ refs[h] > 0}

\* A constructor that builds its wrapper before it looks at the pointer: on
\* the Err path a wrapper around the null handle is left behind.
ConstructBeforeNullCheck(kind, deps, out) ==
    /\ proc = "running"
    /\ Step
    /\ out \in CreateOutcomes(deps)
    /\ CASE out = "fault" ->
            /\ proc' = "crashed"
            /\ last' = [NoLast EXCEPT !.op = "new", !.kind = kind, !.res = "fault"]
            /\ UNCHANGED <<hw, refs>>
         [] out = "null" ->
            /\ hw' = Append(hw, [NewHandle(kind, deps) EXCEPT !.live = FALSE])
            /\ refs' = Append(refs, 1)
            /\ last' = [NoLast EXCEPT !.op = "new", !.kind = kind, !.res = "Err"]
            /\ UNCHANGED proc
         [] out = "handle" ->
            /\ hw' = Append(hw, NewHandle(kind, deps))
            /\ refs' = Append(refs, 1)
            /\ last' = [NoLast EXCEPT !.op = "new", !.kind = kind,
                                      !.h = Len(hw) + 1, !.res = "Ok"]
            /\ UNCHANGED proc
    /\ new_call' = NoNewCall
    /\ poll_call' = NoPollCall
    /\ UNCHANGED <<debug_assertions, calls, produced, delivered>>

\* The shape every constructor shares: one driver call, Err(last_os_error)
\* when it returns null, a wrapper around the handle otherwise.
Construct(kind, deps, out) ==
    /\ proc = "running"
    /\ Step
    /\ out \in CreateOutcomes(deps)
    /\ CASE out = "fault" ->
            /\ proc' = "crashed"
            /\ last' = [NoLast EXCEPT !.op = "new", !.kind = kind, !.res = "fault"]
            /\ UNCHANGED <<hw, refs>>
         [] out = "null" ->
            /\ last' = [NoLast EXCEPT !.op = "new", !.kind = kind, !.res = "Err"]
            /\ UNCHANGED <<proc, hw, refs>>
         [] out = "handle" ->
            /\ hw' = Append(hw, NewHandle(kind, deps))
            /\ refs' = Append(refs, 1)
            /\ last' = [NoLast EXCEPT !.op = "new", !.kind = kind,
                                      !.h = Len(hw) + 1, !.res = "Ok"]
            /\ UNCHANGED proc
    /\ new_call' = NoNewCall
    /\ poll_call' = NoPollCall
    /\ UNCHANGED <<debug_assertions, calls, produced, delivered>>

IbvPdNew(context, out) ==
    /\ context \in Held("ctx")
    /\ Construct("pd", {context}, out)

IbvCompChannelNew(context, out) ==
    /\ context \in Held("ctx")
    /\ Construct("ch", {context}, out)

\* channel = 0 is None.
IbvCqNew(context, channel, out) ==
    /\ context \in Held("ctx")
    /\ channel \in Held("ch") \cup {0}
    /\ Construct("cq", {context} \cup (IF channel = 0 THEN {} ELSE {channel}), out)

IbvMrNew(pd, out) ==
    /\ pd \in Held("pd")
    /\ Construct("mr", {pd}, out)

\* IbvMr::new_raw registers a caller's pointer and length instead of a slice;
\* the driver call and the check of its result are the same.
IbvMrNewRaw(pd, out) ==
    /\ pd \in Held("pd")
    /\ Construct("mr", {pd}, out)

IbvQpNew(pd, send_cq, recv_cq, out) ==
    /\ pd \in Held("pd")
    /\ send_cq \in Held("cq")
    /\ recv_cq \in Held("cq")
    /\ Construct("qp", {pd, send_cq, recv_cq}, out)

(***************************************************************************)
(* #[derive(Clone)]                                                        *)
(***************************************************************************)

\* Every wrapper derives Clone: the copy holds the same raw handle.
Clone(h) ==
    /\ proc = "running"
    /\ Step
    /\ h \in Handles
    /\ refs[h] > 0
    /\ refs' = [refs EXCEPT ![h] = @ + 1]
    /\ last' = [NoLast EXCEPT !.op = "clone", !.kind = hw[h].kind, !.h = h,
                              !.res = "Ok"]
    /\ new_call' = NoNewCall
    /\ poll_call' = NoPollCall
    /\ UNCHANGED <<debug_assertions, proc, hw, calls, produced, delivered>>

(***************************************************************************)
(* impl Drop                                                               *)
(***************************************************************************)

\* if ret != 0 { panic!("ibv_close_device() ..") }
IbvContextDropPanics(ret) == ret # 0

\* IbvPd's drop with the comparison IbvQp's drop uses: only -1 is a failure.
IbvPdDropPanicsOnMinusOne(ret) == ret = -1

\* if ret != 0 { panic!("ibv_dealloc_pd() ..") }
IbvPdDropPanics(ret) == ret # 0

\* if ret != -1 { panic!("ibv_destroy_cq() ..") }
IbvCqDropPanics(ret) == ret # -1

\* if ret != 0 { panic!("ibv_destroy_comp_channel() ..") }
IbvCompChannelDropPanics(ret) == ret # 0

\* if ret != 0 { panic!("ibv_dereg_mr() ..") }
IbvMrDropPanics(ret) == ret # 0

\* if ret == -1 { panic!("ibv_destroy_qp() error") }
IbvQpDropPanics(ret) == ret = -1

\* lib.rs: if ret == -1 { panic!("ibv_close_device() ..") }
LibContextDropPanics(ret) == ret = -1

DropPanics(kind, ret) ==
    CASE kind = "ctx" -> IbvContextDropPanics(ret)
      [] kind = "pd"  -> IbvPdDropPanics(ret)
      [] kind = "cq"  -> IbvCqDropPanics(ret)
      [] kind = "ch"  -> IbvCompChannelDropPanics(ret)
      [] kind = "mr"  -> IbvMrDropPanics(ret)
      [] kind = "qp"  -> IbvQpDropPanics(ret)
      [] kind = "libctx" -> LibContextDropPanics(ret)

\* Dropping one wrapper object: the driver's release call on its handle, then
\* the check of the return value.
Drop(h, ret) ==
    /\ proc = "running"
    /\ Step
    /\ h \in Handles
    /\ refs[h] > 0
    /\ ret \in DriverReleaseRets(h)
    /\ hw' = DriverRelease(h, ret)
    /\ refs' = [refs EXCEPT ![h] = @ - 1]
    /\ proc' = IF DropPanics(hw[h].kind, ret) THEN "panicked" ELSE "running"
    /\ last' = [op |-> "drop", kind |-> hw[h].kind, h |-> h, ret |-> ret,
                res |-> IF DropPanics(hw[h].kind, ret) THEN "panic" ELSE "Ok",
                pre |-> ReleasePre(h)]
    /\ new_call' = NoNewCall
    /\ poll_call' = NoPollCall
    /\ UNCHANGED <<debug_assertions, calls, produced, delivered>>

(***************************************************************************)
(* The wrappers' life cycle: any sequence of create, clone and drop.        *)
(***************************************************************************)

Init ==
    /\ debug_assertions \in BOOLEAN
    /\ proc = "running"
    /\ nops = 0
    /\ hw = <<>>
    /\ refs = <<>>
    /\ last = NoLast
    /\ new_call = NoNewCall
    /\ calls = <<>>
    /\ produced = 0
    /\ delivered = <<>>
    /\ poll_call = NoPollCall

CreateOuts == {"handle", "null", "fault"}

Next ==
    \/ \E n \in 0..MaxDevs, name \in 0..(MaxDevs + 1),
          open \in {"context", "null", "fault"} : IbvContextNew(n, name, open)
    \/ \E c \in Handles, out \in CreateOuts : IbvPdNew(c, out)
    \/ \E c \in Handles, out \in CreateOuts : IbvCompChannelNew(c, out)
    \/ \E c \in Handles, ch \in Handles \cup {0}, out \in CreateOuts :
          IbvCqNew(c, ch, out)
    \/ \E p \in Handles, out \in CreateOuts : IbvMrNew(p, out)
    \/ \E p \in Handles, out \in CreateOuts : IbvMrNewRaw(p, out)
    \/ \E p \in Handles, s \in Handles, r \in Handles, out \in CreateOuts :
          IbvQpNew(p, s, r, out)
    \/ \E h \in Handles : Clone(h)
    \/ \E h \in Handles, ret \in {0} \cup ReleaseFailRets : Drop(h, ret)

Spec == Init /\ [][Next]_vars

(***************************************************************************)
(* IbvQp::modify_reset2init, modify_init2rtr, modify_rtr2rts               *)
(***************************************************************************)

\* Failure codes of ibv_modify_qp: -1 with errno set, or the errno value
\* itself (EINVAL).
ModifyFailRets == {-1, 22}

\* Port numbers a caller may pass; the adapter has the one port 1.
PortNums == {0, 1}
ValidPort(port_num) == port_num = 1

\* The state a queue pair must be in for the driver to move it to target.
QpPred(target) ==
    CASE target = "INIT" -> "RESET"
      [] target = "RTR"  -> "INIT"
      [] target = "RTS"  -> "RTR"

\* The driver accepts a transition from the state right before the target,
\* with attributes it can use.
DriverModifyAccepts(h, target, attr_ok) ==
    hw[h].live /\ hw[h].state = QpPred(target) /\ attr_ok

\* What ibv_modify_qp can return: 0 for an accepted transition, a failure code
\* for a rejected one, anything for a handle already destroyed.
DriverModifyRets(h, target, attr_ok) ==
    IF DriverModifyAccepts(h, target, attr_ok) THEN {0}
    ELSE IF hw[h].live THEN ModifyFailRets
    ELSE {0} \cup ModifyFailRets

DriverModifyQp(h, target, attr_ok) ==
    IF DriverModifyAccepts(h, target, attr_ok)
    THEN [hw EXCEPT ![h].state = target]
    ELSE hw

\* if ret == -1 { return Err(IOError::last_os_error()); } Ok(())
ModifyReset2InitResult(ret) == IF ret = -1 THEN "Err" ELSE "Ok"

ModifyInit2RtrResult(ret) == IF ret = -1 THEN "Err" ELSE "Ok"

ModifyRtr2RtsResult(ret) == IF ret = -1 THEN "Err" ELSE "Ok"

\* The attributes modify_reset2init fills in and the mask it passes.
Reset2InitAttr(port_num) ==
    [qp_state |-> "INIT", pkey_index |-> 0, port_num |-> port_num,
     qp_access_flags |-> {"LOCAL_WRITE", "REMOTE_READ", "REMOTE_WRITE"}]

Reset2InitMask == {"STATE", "PKEY_INDEX", "PORT", "ACCESS_FLAGS"}

\* The attributes modify_init2rtr fills in and the mask it passes; the
\* destination queue pair number, the packet sequence number, the destination
\* lid and the service level are the caller's, named here by their parameter.
Init2RtrAttr(port_num) ==
    [qp_state |-> "RTR", path_mtu |-> "IBV_MTU_1024",
     dest_qp_num |-> "remote_qpn", rq_psn |-> "remote_psn",
     max_dest_rd_atomic |-> 1, min_rnr_timer |-> 12,
     ah_attr |-> [is_global |-> 0, dlid |-> "remote_lid", sl |-> "sl",
                  src_path_bits |-> 0, port_num |-> port_num]]

Init2RtrMask ==
    {"STATE", "AV", "PATH_MTU", "DEST_QPN", "RQ_PSN", "MAX_DEST_RD_ATOMIC",
     "MIN_RNR_TIMER"}

\* The attributes modify_rtr2rts fills in and the mask it passes.
Rtr2RtsAttr ==
    [qp_state |-> "RTS", timeout |-> 14, retry_cnt |-> 7, rnr_retry |-> 7,
     sq_psn |-> "psn", max_rd_atomic |-> 1]

\* The mask without the send sequence number.
Rtr2RtsMaskNoSqPsn ==
    {"STATE", "TIMEOUT", "RETRY_CNT", "RNR_RETRY", "MAX_QP_RD_ATOMIC"}

Rtr2RtsMask ==
    {"STATE", "TIMEOUT", "RETRY_CNT", "RNR_RETRY", "SQ_PSN", "MAX_QP_RD_ATOMIC"}

\* One modify call: qp_attr.qp_state = target, the driver call on handle
\* arg.qp with the attributes arg.attr and the mask arg.mask, the check of its
\* return value.
Modify(op, h, target, attr_ok, ret, res, arg) ==
    /\ proc = "running"
    /\ Step
    /\ h \in Held("qp")
    /\ ret \in DriverModifyRets(h, target, attr_ok)
    /\ hw' = DriverModifyQp(h, target, attr_ok)
    /\ last' = [op |-> op, kind |-> "qp", h |-> h, ret |-> ret, res |-> res,
                pre |-> IF hw[h].live THEN hw[h].state ELSE "stale"]
    /\ calls' = Append(calls, [op |-> op, h |-> h, res |-> res, qp |-> arg.qp,
                                attr |-> arg.attr, mask |-> arg.mask])
    /\ new_call' = NoNewCall
    /\ poll_call' = NoPollCall
    /\ UNCHANGED <<debug_assertions, proc, refs, produced, delivered>>

\* The source names the handle self.p_ibv_qp here, a field IbvQp does not
\* have; the model reads it as self.ibv_qp, as in the two other transitions.
modify_reset2init(h, port_num, ret) ==
    Modify("modify_reset2init", h, "INIT", ValidPort(port_num), ret,
           ModifyReset2InitResult(ret),
           [qp |-> h, attr |-> Reset2InitAttr(port_num), mask |-> Reset2InitMask])

modify_init2rtr(h, port_num, ret) ==
    Modify("modify_init2rtr", h, "RTR", ValidPort(port_num), ret,
           ModifyInit2RtrResult(ret),
           [qp |-> h, attr |-> Init2RtrAttr(port_num), mask |-> Init2RtrMask])

modify_rtr2rts(h, ret) ==
    Modify("modify_rtr2rts", h, "RTS", TRUE, ret, ModifyRtr2RtsResult(ret),
           [qp |-> h, attr |-> Rtr2RtsAttr, mask |-> Rtr2RtsMask])

ModifyOps == {"modify_reset2init", "modify_init2rtr", "modify_rtr2rts"}

ModifyTarget(op) ==
    CASE op = "modify_reset2init" -> "INIT"
      [] op = "modify_init2rtr"   -> "RTR"
      [] op = "modify_rtr2rts"    -> "RTS"

\* A run that starts with a device context, a protection domain and a
\* completion queue already created.
InitQp ==
    /\ debug_assertions \in BOOLEAN
    /\ proc = "running"
    /\ nops = 0
    /\ hw = <<NewHandle("ctx", {}), NewHandle("pd", {1}), NewHandle("cq", {1})>>
    /\ refs = <<1, 1, 1>>
    /\ last = NoLast
    /\ new_call = NoNewCall
    /\ calls = <<>>
    /\ produced = 0
    /\ delivered = <<>>
    /\ poll_call = NoPollCall

NextQp ==
    \/ \E p \in Handles, s \in Handles, r \in Handles, out \in CreateOuts :
          IbvQpNew(p, s, r, out)
    \/ \E h \in Handles, port \in PortNums, ret \in {0} \cup ModifyFailRets :
          modify_reset2init(h, port, ret)
    \/ \E h \in Handles, port \in PortNums, ret \in {0} \cup ModifyFailRets :
          modify_init2rtr(h, port, ret)
    \/ \E h \in Handles, ret \in {0} \cup ModifyFailRets : modify_rtr2rts(h, ret)
    \/ \E h \in Handles : Clone(h)
    \/ \E h \in Handles, ret \in {0} \cup ReleaseFailRets : Drop(h, ret)

SpecQp == InitQp /\ [][NextQp]_vars

\* The transitions alone, on queue pairs created during the run, in a build
\* without debug assertions (only IbvContext::new consults them).
InitModify == InitQp /\ ~debug_assertions

NextModify ==
    \/ \E p \in Handles, s \in Handles, r \in Handles, out \in CreateOuts :
          IbvQpNew(p, s, r, out)
    \/ \E h \in Handles, port \in PortNums, ret \in {0} \cup ModifyFailRets :
          modify_reset2init(h, port, ret)
    \/ \E h \in Handles, port \in PortNums, ret \in {0} \cup ModifyFailRets :
          modify_init2rtr(h, port, ret)
    \/ \E h \in Handles, ret \in {0} \cup ModifyFailRets : modify_rtr2rts(h, ret)

SpecModify == InitModify /\ [][NextModify]_vars

(***************************************************************************)
(* IbvCq::poll                                                             *)
(***************************************************************************)

\* A buffer length is a usize, written in two limbs: hi * 2^31 + lo.
BufLens == [hi : 0..MaxBufHi, lo : 0..MaxBufLo]

\* The count taken one past the buffer, cqe_arr.len() as i32 + 1.
AsI32PlusOne(len) ==
    IF len.hi % 2 = 0 THEN len.lo + 1 ELSE (len.lo - 2147483647)

\* cqe_arr.len() as i32: the low 32 bits, read as a signed number.
AsI32(len) ==
    IF len.hi % 2 = 0 THEN len.lo ELSE (len.lo - 2147483647) - 1

\* n <= len, for a small natural number n.
LenLE(n, len) == len.hi > 0 \/ n <= len.lo

\* min(len, p), for a small natural number p.
MinLen(len, p) == IF len.hi > 0 THEN p ELSE Min(len.lo, p)

\* Failure codes of the driver's poll entry point.
PollFailRets == {-1, -22}

\* The driver hands over as many pending completions as fit into the
\* num_entries it is asked for, or fails with a negative value.
DriverPollRets(h, num_entries) ==
    {Min(Max(num_entries, 0), Len(hw[h].wcs))} \cup PollFailRets

\* The completions left in the queue after the driver handed over n.
DriverPollTake(h, n) ==
    IF n > 0
    THEN [hw EXCEPT ![h].wcs = SubSeq(@, n + 1, Len(@))]
    ELSE hw

\* The error check written as in the modify_* calls: only -1 is a failure.
PollIsErrOnMinusOne(n) == n = -1

\* if n < 0 { return Err(()); }
PollIsErr(n) == n < 0

\* The slice taken without the range check and one entry too long, as
\* cqe_arr.get_unchecked(0..=n) would.
PollSliceUnchecked(len, n) == [res |-> "Ok", count |-> n + 1]

\* &mut cqe_arr[0..n as usize]: a negative n becomes a number above every
\* length; the range is checked against the buffer and panics when it ends
\* beyond it.
PollSlice(len, n) ==
    IF n >= 0 /\ LenLE(n, len)
    THEN [res |-> "Ok", count |-> n]
    ELSE [res |-> "panic", count |-> 0]

IbvCqPoll(len, n) ==
    IF PollIsErr(n) THEN [res |-> "Err", count |-> 0] ELSE PollSlice(len, n)

\* A handle whose device context or channel was already released.
Orphan(h) == \E d \in hw[h].deps : ~hw[d].live

Poll(h, len, n) ==
    /\ proc = "running"
    /\ Step
    /\ h \in Held("cq")
    /\ hw[h].live
    /\ n \in DriverPollRets(h, AsI32(len))
    /\ LET r == IbvCqPoll(len, n) IN
       /\ hw' = DriverPollTake(h, n)
       /\ proc' = IF r.res = "panic" THEN "panicked" ELSE "running"
       \* the entries of the returned slice that the driver wrote
       /\ delivered' = delivered \o SubSeq(hw[h].wcs, 1, Min(r.count, Max(n, 0)))
       /\ poll_call' = [len |-> len, ne |-> AsI32(len), n |-> n,
                        pre |-> Len(hw[h].wcs), res |-> r.res, count |-> r.count]
       /\ last' = [op |-> "poll", kind |-> "cq", h |-> h, ret |-> n,
                   res |-> r.res, pre |-> "live"]
    /\ new_call' = NoNewCall
    /\ UNCHANGED <<debug_assertions, refs, calls, produced>>

\* poll reads the entry point through the queue's device context,
\* (*(*self.ibv_cq.as_ptr()).context).ops.poll_cq: once that context is
\* closed the read goes through freed memory and the call may fault as well.
PollFault(h, len) ==
    /\ proc = "running"
    /\ Step
    /\ h \in Held("cq")
    /\ hw[h].live
    /\ Orphan(h)
    /\ proc' = "crashed"
    /\ poll_call' = [len |-> len, ne |-> AsI32(len), n |-> 0,
                     pre |-> Len(hw[h].wcs), res |-> "fault", count |-> 0]
    /\ last' = [op |-> "poll", kind |-> "cq", h |-> h, ret |-> 0,
                res |-> "fault", pre |-> "orphan"]
    /\ new_call' = NoNewCall
    /\ UNCHANGED <<debug_assertions, hw, refs, calls, produced, delivered>>

\* The hardware completes k more work requests into a queue.
HwComplete(h, k) ==
    /\ proc = "running"
    /\ Step
    /\ h \in Handles
    /\ hw[h].kind = "cq"
    /\ hw[h].live
    /\ Len(hw[h].wcs) + k <= MaxPending
    /\ hw' = [hw EXCEPT ![h].wcs = @ \o [i \in 1..k |-> produced + i]]
    /\ produced' = produced + k
    /\ UNCHANGED <<debug_assertions, proc, refs, last, new_call, calls,
                   delivered, poll_call>>

\* A run that starts with a device context and a completion queue.
InitCq ==
    /\ debug_assertions \in BOOLEAN
    /\ proc = "running"
    /\ nops = 0
    /\ hw = <<NewHandle("ctx", {}), NewHandle("cq", {1})>>
    /\ refs = <<1, 1>>
    /\ last = NoLast
    /\ new_call = NoNewCall
    /\ calls = <<>>
    /\ produced = 0
    /\ delivered = <<>>
    /\ poll_call = NoPollCall

NextCq ==
    \/ \E h \in Handles, k \in 1..MaxPending : HwComplete(h, k)
    \/ \E h \in Handles, len \in BufLens,
          n \in (0..MaxPending) \cup PollFailRets : Poll(h, len, n)
    \/ \E h \in Handles, len \in BufLens : PollFault(h, len)
    \/ \E h \in Handles : Clone(h)
    \/ \E h \in Handles, ret \in {0} \cup ReleaseFailRets : Drop(h, ret)

SpecCq == InitCq /\ [][NextCq]_vars

(***************************************************************************)
(* IbvMr::get_lkey, IbvMr::get_rkey                                        *)
(***************************************************************************)

\* The keys the driver writes into the ibv_mr it returns for registration h.
MrLkey(h) == 2 * h
MrRkey(h) == 2 * h + 1

\* self.ibv_mr.as_ref().lkey reads the driver's ibv_mr structure.  After
\* ibv_dereg_mr that structure is freed: the read may still find the key,
\* find whatever the memory holds now, or fault.
MrReadOutcomes(h) ==
    IF hw[h].live THEN {"key"} ELSE {"key", "garbage", "fault"}

GetKey(op, h, key, out) ==
    /\ proc = "running"
    /\ Step
    /\ h \in Held("mr")
    /\ out \in MrReadOutcomes(h)
    /\ proc' = IF out = "fault" THEN "crashed" ELSE "running"
    /\ last' = [op |-> op, kind |-> "mr", h |-> h,
                ret |-> IF out = "key" THEN key ELSE 0, res |-> out,
                pre |-> IF hw[h].live THEN "live" ELSE "stale"]
    /\ new_call' = NoNewCall
    /\ poll_call' = NoPollCall
    /\ UNCHANGED <<debug_assertions, hw, refs, calls, produced, delivered>>

get_rkey(h, out) == GetKey("get_rkey", h, MrRkey(h), out)

get_lkey(h, out) == GetKey("get_lkey", h, MrLkey(h), out)

\* A run that starts with a device context and a protection domain.
InitMr ==
    /\ debug_assertions \in BOOLEAN
    /\ proc = "running"
    /\ nops = 0
    /\ hw = <<NewHandle("ctx", {}), NewHandle("pd", {1})>>
    /\ refs = <<1, 1>>
    /\ last = NoLast
    /\ new_call = NoNewCall
    /\ calls = <<>>
    /\ produced = 0
    /\ delivered = <<>>
    /\ poll_call = NoPollCall

NextMr ==
    \/ \E p \in Handles, out \in CreateOuts : IbvMrNew(p, out)
    \/ \E p \in Handles, out \in CreateOuts : IbvMrNewRaw(p, out)
    \/ \E h \in Handles, out \in {"key", "garbage", "fault"} : get_rkey(h, out)
    \/ \E h \in Handles, out \in {"key", "garbage", "fault"} : get_lkey(h, out)
    \/ \E h \in Handles : Clone(h)
    \/ \E h \in Handles, ret \in {0} \cup ReleaseFailRets : Drop(h, ret)

SpecMr == InitMr /\ [][NextMr]_vars

(***************************************************************************)
(* The two IbvContext of the crate: ibv.rs (kind "ctx") and lib.rs (kind   *)
(* "libctx").                                                              *)
(***************************************************************************)

\* What IbvContext::new of ibv.rs returns, given the number of devices, the
\* name asked for and what ibv_open_device does ("none" when it is not
\* reached).
IbvContextNewRes(num_devs, dev_name, open) ==
    IF DebugAssertFails(num_devs) THEN "panic"
    ELSE IF num_devs = 0 THEN "NoDevice"
    ELSE CASE open = "fault"   -> "fault"
           [] open = "null"    -> "OpenDeviceError"
           [] open = "context" -> "Ok"     \* NonNull::new_unchecked
           [] OTHER            -> "none"

\* NonNull::new(ibv_context).unwrap() panics on a null pointer.
UnwrapPanics(is_null) == is_null

\* The same for lib.rs, which wraps the pointer with NonNull::new(..).unwrap()
\* after the null check.
LibContextNewRes(num_devs, dev_name, open) ==
    IF DebugAssertFails(num_devs) THEN "panic"
    ELSE IF num_devs = 0 THEN "NoDevice"
    ELSE CASE open = "fault"   -> "fault"
           [] open = "null"    -> "OpenDeviceError"
           [] open = "context" ->
                  IF UnwrapPanics(open = "null") THEN "panic" ELSE "Ok"
           [] OTHER            -> "none"

\* IbvContext::new of lib.rs.
LibContextNew(num_devs, dev_name, open) ==
    /\ proc = "running"
    /\ Step
    /\ LET reached == ~DebugAssertFails(num_devs) /\ num_devs # 0
           ib_dev == IF reached THEN SelectDevice(num_devs, dev_name) ELSE 0
           res == LibContextNewRes(num_devs, dev_name, open)
           freed == reached /\ open \in {"null", "context"}
       IN
       /\ IF reached THEN open \in OpenOutcomes(ib_dev) ELSE open = "none"
       /\ proc' = CASE res = "panic" -> "panicked"
                    [] res = "fault" -> "crashed"
                    [] OTHER         -> "running"
       /\ IF res = "Ok"
          THEN /\ hw' = Append(hw, NewHandle("libctx", {}))
               /\ refs' = Append(refs, 1)
          ELSE UNCHANGED <<hw, refs>>
       /\ last' = [NoLast EXCEPT !.op = "new", !.kind = "libctx", !.res = res,
                                 !.h = IF res = "Ok" THEN Len(hw) + 1 ELSE 0]
       /\ new_call' = [num_devs |-> num_devs, dev_name |-> dev_name,
                       ib_dev |-> ib_dev,
                       list |-> IF freed THEN "freed" ELSE "held",
                       frees |-> IF freed THEN 1 ELSE 0, open |-> open]
    /\ poll_call' = NoPollCall
    /\ UNCHANGED <<debug_assertions, calls, produced, delivered>>

\* Failure codes of ibv_query_device: -1 with errno set, or the errno value
\* itself (EINVAL).
QueryFailRets == {-1, 22}

\* ibv.rs: if ret != 0 { return Err(IOError::last_os_error()); }
IbvQueryDeviceResult(ret) == IF ret # 0 THEN "Err" ELSE "Ok"

\* lib.rs: if ret == -1 { return Err(IOError::last_os_error()); }
LibQueryDeviceResult(ret) == IF ret = -1 THEN "Err" ELSE "Ok"

QueryDevice(kind, h, ret, res) ==
    /\ proc = "running"
    /\ Step
    /\ h \in Held(kind)
    /\ ret \in {0} \cup QueryFailRets
    /\ last' = [op |-> "query_device", kind |-> kind, h |-> h, ret |-> ret,
                res |-> res, pre |-> IF hw[h].live THEN "live" ELSE "stale"]
    /\ new_call' = NoNewCall
    /\ poll_call' = NoPollCall
    /\ UNCHANGED <<debug_assertions, proc, hw, refs, calls, produced, delivered>>

query_device(h, ret) == QueryDevice("ctx", h, ret, IbvQueryDeviceResult(ret))

lib_query_device(h, ret) ==
    QueryDevice("libctx", h, ret, LibQueryDeviceResult(ret))

NextCtx ==
    \/ \E n \in 0..MaxDevs, name \in 0..(MaxDevs + 1),
          open \in {"context", "null", "fault"} : IbvContextNew(n, name, open)
    \/ \E n \in 0..MaxDevs, name \in 0..(MaxDevs + 1),
          open \in {"context", "null", "fault", "none"} :
          LibContextNew(n, name, open)
    \/ \E h \in Handles, ret \in {0} \cup QueryFailRets : query_device(h, ret)
    \/ \E h \in Handles, ret \in {0} \cup QueryFailRets : lib_query_device(h, ret)
    \/ \E h \in Handles : Clone(h)
    \/ \E h \in Handles, ret \in {0} \cup ReleaseFailRets : Drop(h, ret)

SpecCtx == Init /\ [][NextCtx]_vars

(***************************************************************************)
(* The claims.                                                             *)
(***************************************************************************)

\* The modify_* calls made on queue pair h, in order.
CallsOn(h) ==
    LET OnH(c) == c.h = h IN SelectSeq(calls, OnH)

\* C1 (first half): when the calls made on a queue pair created by IbvQp::new
\* are exactly modify_reset2init, modify_init2rtr and modify_rtr2rts, in that
\* order, and each returned Ok, the queue pair is in RTS.
C1_InOrderOkReachesRts ==
    \A h \in Handles :
        (hw[h].kind = "qp" /\ hw[h].live) =>
            LET c == CallsOn(h) IN
            (/\ Len(c) = 3
             /\ c[1].op = "modify_reset2init"
             /\ c[2].op = "modify_init2rtr"
             /\ c[3].op = "modify_rtr2rts"
             /\ \A i \in 1..3 : c[i].res = "Ok")
            => hw[h].state = "RTS"

\* C1 (second half): a queue pair only ever stays in its state or moves one
\* step forward along RESET, INIT, RTR, RTS.
C1_OneStepForward ==
    [][\A h \in Handles :
          hw[h].kind = "qp" =>
              \/ hw'[h].state = hw[h].state
              \/ /\ hw'[h].state \in {"INIT", "RTR", "RTS"}
                 /\ hw[h].state = QpPred(hw'[h].state)]_vars

\* C2: a modify_* call made out of order (on a queue pair that is not in the
\* state right before the call's target) returns Err, whatever failure code
\* the driver returns, and leaves the state of the queue pair unchanged.
C2_OutOfOrderIsErr ==
    (/\ last.op \in ModifyOps
     /\ last.pre # "stale"
     /\ last.pre # QpPred(ModifyTarget(last.op)))
    => (last.res = "Err" /\ hw[last.h].state = last.pre)

\* C3: a drop made in reverse-dependency order (no live object was created
\* from the handle, everything it was created from is live) whose driver call
\* returns 0 completes without a panic.
C3_ReverseOrderDropSucceeds ==
    (/\ last.op = "drop"
     /\ last.pre = "idle"
     /\ last.ret = 0
     /\ ~Orphan(last.h))
    => proc = "running"

\* C4: when poll returns Ok, the slice it returns has between 0 and
\* buffer.len() entries.
C4_PollWithinBuffer ==
    poll_call.res = "Ok" =>
        (poll_call.count >= 0 /\ LenLE(poll_call.count, poll_call.len))

\* A poll that filled the whole buffer with more completions pending.
C4_Witness ==
    /\ poll_call.res = "Ok"
    /\ poll_call.len.hi = 0
    /\ poll_call.len.lo > 0
    /\ poll_call.count = poll_call.len.lo
    /\ poll_call.pre > poll_call.count

\* C5: a poll with a buffer of length k on a queue with p pending completions
\* returns min(k, p) entries and leaves p - min(k, p) pending.
C5_PollReturnsMin ==
    poll_call.res = "Ok" =>
        /\ poll_call.count = MinLen(poll_call.len, poll_call.pre)
        /\ Len(hw[last.h].wcs) = poll_call.pre - MinLen(poll_call.len, poll_call.pre)

\* C5 (second half): the completions delivered so far followed by those still
\* pending are the completions generated, each once and in order.
C5_ExactlyOnce ==
    proc = "running" =>
        \A h \in Handles :
            hw[h].kind = "cq" =>
                delivered \o hw[h].wcs = [i \in 1..produced |-> i]

\* C6: when the driver's poll entry point returns a negative value, poll
\* returns Err and hands no entry of the buffer to the caller.
C6_NegativeIsErr ==
    poll_call.n < 0 => (poll_call.res = "Err" /\ poll_call.count = 0)

\* A failed poll on a queue with completions pending.
C6_Witness ==
    /\ poll_call.n = -22
    /\ poll_call.res = "Err"
    /\ poll_call.pre > 0
    /\ LenLE(1, poll_call.len)

\* C7: IbvContext::new with zero enumerated adapters returns Err(NoDevice)
\* and the process goes on.
C7_ZeroDevicesIsNoDevice ==
    (last.op = "new" /\ last.kind = "ctx" /\ new_call.num_devs = 0)
    => (last.res = "NoDevice" /\ proc = "running")

LiveMrOf(h) ==
    \E m \in Handles : hw[m].kind = "mr" /\ hw[m].live /\ h \in hw[m].deps

\* C9: dropping an IbvPd whose domain a live memory region was registered in
\* is rejected: the drop panics, the domain is not released, and the memory
\* region still refers to a domain the driver has.
C9_PdDropWithLiveMrRejected ==
    (/\ last.op = "drop"
     /\ last.kind = "pd"
     /\ last.pre # "stale"
     /\ LiveMrOf(last.h))
    => (proc = "panicked" /\ hw[last.h].live)

\* Such a drop, refused by the driver with EBUSY.
C9_Witness ==
    /\ last.op = "drop"
    /\ last.kind = "pd"
    /\ last.pre = "busy"
    /\ last.ret = 16
    /\ LiveMrOf(last.h)

\* C10: for every kind of wrapper, the drop panics when the driver's release
\* call returns a nonzero value, and only then.
C10_DropPanicsIffFailure ==
    last.op = "drop" => ((last.res = "panic") <=> (last.ret # 0))

\* The parent kinds whose release C11 speaks of, per kind of object.
ParentKinds(kind) ==
    CASE kind = "qp" -> {"pd", "cq"}
      [] kind = "mr" -> {"pd"}
      [] kind = "pd" -> {"ctx"}
      [] kind = "cq" -> {"ctx", "ch"}
      [] OTHER       -> {}

\* A live wrapper object on a live handle that was created from a handle the
\* driver has released since.
Dangling(h) ==
    /\ refs[h] > 0
    /\ hw[h].live
    /\ \E d \in hw[h].deps : hw[d].kind \in ParentKinds(hw[h].kind) /\ ~hw[d].live

C12_NoKeysAfterDereg ==
    (last.op \in {"get_lkey", "get_rkey"} /\ last.pre = "stale")
    => last.res # "key"

\* C13: the entry count IbvCq::poll passes to the driver never exceeds the
\* length of the caller's buffer, for every length, those above 2^31 - 1
\* included, where the cast to i32 drops the high bits.
C13_EntryCountWithinBuffer ==
    last.op = "poll" =>
        (poll_call.ne < 0 \/ LenLE(poll_call.ne, poll_call.len))

\* A poll with a buffer of 2^32 + lo entries, for which the driver was asked
\* for lo.
C13_Witness ==
    /\ last.op = "poll"
    /\ last.res = "Ok"
    /\ poll_call.len.hi = 2
    /\ poll_call.ne > 0
    /\ poll_call.ne = poll_call.len.lo

\* The attribute mask of each transition, as the transition table gives it.
TransitionMask(op) ==
    CASE op = "modify_reset2init" ->
             {"STATE", "PKEY_INDEX", "PORT", "ACCESS_FLAGS"}
      [] op = "modify_init2rtr" ->
             {"STATE", "AV", "PATH_MTU", "DEST_QPN", "RQ_PSN",
              "MAX_DEST_RD_ATOMIC", "MIN_RNR_TIMER"}
      [] op = "modify_rtr2rts" ->
             {"STATE", "TIMEOUT", "RETRY_CNT", "RNR_RETRY", "SQ_PSN",
              "MAX_QP_RD_ATOMIC"}

\* The fixed attribute values of each transition.
TransitionValues(c) ==
    CASE c.op = "modify_reset2init" -> c.attr.pkey_index = 0
      [] c.op = "modify_init2rtr" ->
             c.attr.max_dest_rd_atomic = 1 /\ c.attr.min_rnr_timer = 12
      [] c.op = "modify_rtr2rts" ->
             /\ c.attr.timeout = 14
             /\ c.attr.retry_cnt = 7
             /\ c.attr.rnr_retry = 7
             /\ c.attr.max_rd_atomic = 1

C15_NoCallAfterRelease ==
    last.op # "none" => last.pre # "stale"

\* C16: every IbvContext::new call that returns (NoDevice, OpenDeviceError or
\* Ok) has freed the device list it obtained, exactly once.
C16_DeviceListFreedOnce ==
    (/\ last.op = "new"
     /\ last.kind = "ctx"
     /\ last.res \in {"NoDevice", "OpenDeviceError", "Ok"})
    => (new_call.list = "freed" /\ new_call.frees = 1)

\* C17: a constructor call that returns Err leaves no wrapper object and no
\* driver handle behind: the wrappers and handles are those from before the
\* call, so no drop can ever issue a release for the failed creation.
C17_ErrLeavesNoWrapper ==
    [][(/\ nops' # nops
        /\ last'.op = "new"
        /\ last'.res \in {"Err", "NoDevice", "OpenDeviceError"})
       => (refs' = refs /\ hw' = hw)]_vars

\* A queue pair creation that failed, with the wrappers of its protection
\* domain and completion queue in hand and no queue pair wrapper.
C17_Witness ==
    /\ last.op = "new"
    /\ last.kind = "qp"
    /\ last.res = "Err"
    /\ Held("qp") = {}
    /\ Held("pd") # {}
    /\ Held("cq") # {}

\* C18: the IbvContext of lib.rs and the IbvContext of ibv.rs are equivalent:
\* whatever new, query_device or drop returned in one of them, on the same
\* inputs and the same driver return value the other returns the same (Ok,
\* the same error, or a panic).
C18_SameOutcomeInBoth ==
    /\ (last.op = "new" /\ last.kind = "ctx") =>
           last.res = LibContextNewRes(new_call.num_devs, new_call.dev_name,
                                       new_call.open)
    /\ (last.op = "new" /\ last.kind = "libctx") =>
           last.res = IbvContextNewRes(new_call.num_devs, new_call.dev_name,
                                       new_call.open)
    /\ (last.op = "query_device" /\ last.kind = "ctx") =>
           last.res = LibQueryDeviceResult(last.ret)
    /\ (last.op = "query_device" /\ last.kind = "libctx") =>
           last.res = IbvQueryDeviceResult(last.ret)
    /\ (last.op = "drop" /\ last.kind = "ctx") =>
           ((last.res = "panic") <=> LibContextDropPanics(last.ret))
    /\ (last.op = "drop" /\ last.kind = "libctx") =>
           ((last.res = "panic") <=> IbvContextDropPanics(last.ret))

=============================================================================
